---- MODULE Spec2Model ----
(***************************************************************************)
(* Model of the Rakshak AI /seek decision service                          *)
(* (gig_worker_app/backend/app.py) and of the platform simulator's record  *)
(* store (zomato_simulator/backend/utils.py, app.py).                      *)
(*                                                                         *)
(* Python values are modelled as tagged records ([t |-> "int", i |-> 0],   *)
(* [t |-> "dict", d |-> f], ...), Python dicts as functions whose domain   *)
(* is the set of keys present, text as TLA+ strings handled character by   *)
(* character.  Monetary amounts are counted in hundredths.                 *)
(***************************************************************************)
EXTENDS Integers, Sequences, FiniteSets, TLC

(***************************************************************************)
(* Text helpers: str.lower(), str.strip(), "k in t", str.startswith        *)
(***************************************************************************)
UpperChars == "ABCDEFGHIJKLMNOPQRSTUVWXYZ"
LowerChars == "abcdefghijklmnopqrstuvwxyz"
DigitChars == "0123456789"
SpaceChars == {" ", "\t", "\n", "\r"}

\* the character at position i, "" outside the text
CharAt(s, i) == IF i \in 1..Len(s) THEN SubSeq(s, i, i) ELSE ""

CharsOf(alphabet) == {CharAt(alphabet, i) : i \in 1..Len(alphabet)}

UpperSet == CharsOf(UpperChars)

DigitSet == CharsOf(DigitChars)

\* the lower-case letter of each upper-case letter
LowerOf ==
  [c \in UpperSet |->
     CharAt(LowerChars, CHOOSE i \in 1..Len(UpperChars) : CharAt(UpperChars, i) = c)]

\* the value of each decimal digit
DigitValOf ==
  [c \in DigitSet |-> (CHOOSE i \in 1..Len(DigitChars) : CharAt(DigitChars, i) = c) - 1]

IsDigit(c) == c \in DigitSet

DigitVal(c) == DigitValOf[c]

\* the value of a text of decimal digits
RECURSIVE ParseDigits(_)
ParseDigits(s) ==
  IF s = "" THEN 0 ELSE 10 * ParseDigits(SubSeq(s, 1, Len(s) - 1)) + DigitVal(CharAt(s, Len(s)))

LowerChar(c) == IF c \in UpperSet THEN LowerOf[c] ELSE c

RECURSIVE lower(_)
lower(s) == IF s = "" THEN "" ELSE LowerChar(CharAt(s, 1)) \o lower(Tail(s))

RECURSIVE lstrip(_)
lstrip(s) == IF s # "" /\ CharAt(s, 1) \in SpaceChars THEN lstrip(Tail(s)) ELSE s

RECURSIVE rstrip(_)
rstrip(s) ==
  IF s # "" /\ CharAt(s, Len(s)) \in SpaceChars THEN rstrip(SubSeq(s, 1, Len(s) - 1)) ELSE s

strip(s) == rstrip(lstrip(s))

\* Python's  k in t  on strings
contains(t, k) == \E i \in 1..(Len(t) - Len(k) + 1) : SubSeq(t, i, i + Len(k) - 1) = k

startswith(t, k) == Len(t) >= Len(k) /\ SubSeq(t, 1, Len(k)) = k

any_in(t, kws) == \E k \in kws : contains(t, k)

\* A transcript is Optional[str]: NoneText stands for Python's None
NoneText == "<None>"

\* (text or "")
or_empty(text) == IF text = NoneText THEN "" ELSE text

(***************************************************************************)
(* Python values                                                           *)
(***************************************************************************)
NoneV == [t |-> "None"]
IntV(n) == [t |-> "int", i |-> n]
BoolV(b) == [t |-> "bool", b |-> b]
StrV(s) == [t |-> "str", s |-> s]
DictV(f) == [t |-> "dict", d |-> f]
ListV(q) == [t |-> "list", l |-> q]

EmptyDict == DictV(<<>>)

isinstance(v, ty) == v.t = ty

\* bool(v): the truth value Python gives v in  a or b  and  if v
truthy(v) ==
  CASE v.t = "None" -> FALSE
    [] v.t = "int" -> v.i # 0
    [] v.t = "bool" -> v.b
    [] v.t = "str" -> v.s # ""
    [] v.t = "dict" -> DOMAIN v.d # {}
    [] v.t = "list" -> Len(v.l) > 0

\* a or b
py_or(a, b) == IF truthy(a) THEN a ELSE b

\* d.get(k) and d.get(k, default) on the keys of a dict
get(d, k) == IF k \in DOMAIN d THEN d[k] ELSE NoneV

get_default(d, k, default) == IF k \in DOMAIN d THEN d[k] ELSE default

\* int(v); a ValueError/TypeError is the result [ok |-> FALSE]
py_int(v) ==
  CASE v.t = "int" -> [ok |-> TRUE, i |-> v.i]
    [] v.t = "bool" -> [ok |-> TRUE, i |-> IF v.b THEN 1 ELSE 0]
    [] v.t = "str" ->
         IF strip(v.s) # "" /\ \A k \in 1..Len(strip(v.s)) : IsDigit(CharAt(strip(v.s), k))
         THEN [ok |-> TRUE, i |-> ParseDigits(strip(v.s))]
         ELSE [ok |-> FALSE]
    [] OTHER -> [ok |-> FALSE]

\* v == n for an int n (True == 1 and False == 0 in Python)
py_eq_int(v, n) ==
  CASE v.t = "int" -> v.i = n
    [] v.t = "bool" -> (IF v.b THEN 1 ELSE 0) = n
    [] OTHER -> FALSE

py_eq_str(v, s) == v.t = "str" /\ v.s = s

\* v in (0, "0", False)
in_falsy_flags(v) == py_eq_int(v, 0) \/ py_eq_str(v, "0")

\* v in (1, True, "1")
in_truthy_flags(v) == py_eq_int(v, 1) \/ py_eq_str(v, "1")

\* float(v) in hundredths; a ValueError/TypeError is the result [ok |-> FALSE]
py_float(v) ==
  CASE v.t = "int" -> [ok |-> TRUE, c |-> 100 * v.i]
    [] v.t = "bool" -> [ok |-> TRUE, c |-> IF v.b THEN 100 ELSE 0]
    [] v.t = "str" ->
         IF strip(v.s) # "" /\ \A k \in 1..Len(strip(v.s)) : IsDigit(CharAt(strip(v.s), k))
         THEN [ok |-> TRUE, c |-> 100 * ParseDigits(strip(v.s))]
         ELSE [ok |-> FALSE]
    [] OTHER -> [ok |-> FALSE]

Abs(n) == IF n < 0 THEN -n ELSE n

(***************************************************************************)
(* extract_number_from_text: re.search of                                  *)
(*   (?<![\d.])(\d{1,6}(?:\.\d{1,2})?)(?![\d.])                            *)
(***************************************************************************)
MaxIntDigits == 6

\* the character class [\d.] of the two lookarounds
in_lookaround_class(c) == IsDigit(c) \/ c = "."

lookbehind_ok(s, i) == i = 1 \/ ~in_lookaround_class(CharAt(s, i - 1))

lookahead_ok(s, p) == p > Len(s) \/ ~in_lookaround_class(CharAt(s, p))

digits_at(s, i, n) == \A k \in i..(i + n - 1) : IsDigit(CharAt(s, k))

\* after the integer part ending at e: the greedy optional group
\* (?:\.\d{1,2})? then the lookahead, with backtracking; 0 = no match
match_tail(s, e) ==
  IF CharAt(s, e + 1) = "." /\ IsDigit(CharAt(s, e + 2)) /\ IsDigit(CharAt(s, e + 3))
     /\ lookahead_ok(s, e + 4) THEN e + 3
  ELSE IF CharAt(s, e + 1) = "." /\ IsDigit(CharAt(s, e + 2)) /\ lookahead_ok(s, e + 3)
  THEN e + 2
  ELSE IF lookahead_ok(s, e + 1) THEN e
  ELSE 0

\* greedy \d{1,6}: n digits tried from the longest down; 0 = no match at i
RECURSIVE match_end(_, _, _)
match_end(s, i, n) ==
  IF n = 0 THEN 0
  ELSE IF digits_at(s, i, n) /\ match_tail(s, i + n - 1) > 0
  THEN match_tail(s, i + n - 1)
  ELSE match_end(s, i, n - 1)

matches_at(s, i) == lookbehind_ok(s, i) /\ match_end(s, i, MaxIntDigits) > 0

\* float(m.group(1)) in hundredths
parse_amount(g) ==
  IF \E k \in 1..Len(g) : CharAt(g, k) = "."
  THEN LET k == CHOOSE k \in 1..Len(g) : CharAt(g, k) = "."
           frac == SubSeq(g, k + 1, Len(g))
       IN  100 * ParseDigits(SubSeq(g, 1, k - 1))
           + (IF Len(frac) = 1 THEN 10 * ParseDigits(frac) ELSE ParseDigits(frac))
  ELSE 100 * ParseDigits(g)

\* re.search: the leftmost position at or after i where the pattern matches,
\* 0 when there is none
RECURSIVE search_from(_, _)
search_from(s, i) ==
  IF i > Len(s) THEN 0
  ELSE IF matches_at(s, i) THEN i
  ELSE search_from(s, i + 1)

\* variant: 0.0 instead of None when nothing matches
extract_number_or_zero(text) ==
  LET s == or_empty(text)
      i == search_from(s, 1)
  IN  IF i = 0 THEN [t |-> "float", c |-> 0]
      ELSE [t |-> "float", c |-> parse_amount(SubSeq(s, i, match_end(s, i, MaxIntDigits)))]

\* NoneV when nothing matches, else [t |-> "float", c |-> hundredths]
extract_number_from_text(text) ==
  LET s == or_empty(text)
      i == search_from(s, 1)
  IN  IF i = 0 THEN NoneV
      ELSE [t |-> "float", c |-> parse_amount(SubSeq(s, i, match_end(s, i, MaxIntDigits)))]

(***************************************************************************)
(* Keyword tests on the transcript                                         *)
(***************************************************************************)
TerminationKeywords ==
  {"terminate", "terminated", "suspend", "suspended", "deactivated", "blocked", "banned"}

\* the source list also holds "paid " followed by a rupee sign; every text
\* with that key contains "paid" as well
PayoutKeywords ==
  {"payout", "paid", "not paid", "unpaid", "payment", "paid rs", "rupees", "rs."}

RatingKeywords == {"rating", "algo", "algorithm", "penalty", "deduct", "deduction"}

NoNoticeKeywords == {"no notice", "sudden", "immediately", "without notice"}

NotPaidKeywords == {"not paid", "didn't get paid", "unpaid", "not received", "not paid to me"}

\* variant: the keywords are searched in the text as typed, without lower()
transcript_mentions_termination_as_typed(text) == any_in(or_empty(text), TerminationKeywords)

transcript_mentions_termination(text) == any_in(lower(or_empty(text)), TerminationKeywords)

transcript_mentions_payout_or_paid(text) == any_in(lower(or_empty(text)), PayoutKeywords)

transcript_mentions_rating_or_algo(text) == any_in(lower(or_empty(text)), RatingKeywords)

(***************************************************************************)
(* check_discrepancy(transcript, worker_db); worker_db is the dict of the  *)
(* fetched record (a function on the keys present)                         *)
(***************************************************************************)
PayoutTolerance == 100

\* term = worker_db.get("termination_status") or worker_db.get("terminationStatus") or {}
term_of(worker_db) ==
  py_or(py_or(get(worker_db, "termination_status"), get(worker_db, "terminationStatus")),
        EmptyDict)

\* is_terminated: None, or the int(...) of the flag when the key is there
is_terminated_of(term) ==
  IF isinstance(term, "dict") /\ "is_terminated" \in DOMAIN term.d
  THEN LET r == py_int(get_default(term.d, "is_terminated", IntV(0)))
       IN  IF r.ok THEN IntV(r.i) ELSE NoneV
  ELSE NoneV

\* variant: any flag that is there contradicts the transcript, the == 0 is lost
rule_termination_any_flag(transcript, worker_db) ==
  /\ transcript_mentions_termination(transcript)
  /\ is_terminated_of(term_of(worker_db)) # NoneV

\* 1) termination contradiction
rule_termination(transcript, worker_db) ==
  LET is_terminated == is_terminated_of(term_of(worker_db))
  IN  /\ transcript_mentions_termination(transcript)
      /\ is_terminated # NoneV
      /\ is_terminated.i = 0

\* payouts = worker_db.get("payouts") or (worker_db.get("worker") or {}).get("payouts") or []
payouts_of(worker_db) ==
  py_or(py_or(get(worker_db, "payouts"),
              get(py_or(get(worker_db, "worker"), EmptyDict).d, "payouts")),
        ListV(<<>>))

\* 2) payout contradiction; an exception inside the try block is swallowed
rule_payout(transcript, worker_db) ==
  LET claimed_amount == extract_number_from_text(transcript)
      payouts == payouts_of(worker_db)
  IN  /\ claimed_amount # NoneV
      /\ isinstance(payouts, "list")
      /\ truthy(payouts)
      /\ isinstance(payouts.l[1], "dict")
      /\ LET latest_amt == py_float(get_default(payouts.l[1].d, "amount", IntV(0)))
         IN  /\ latest_amt.ok
             /\ Abs(latest_amt.c - claimed_amount.c) > 100 * PayoutTolerance

\* variant: the reason text counts only for a worker recorded as terminated
rule_no_notice_if_terminated(transcript, worker_db) ==
  LET term == term_of(worker_db)
  IN  /\ any_in(lower(or_empty(transcript)), NoNoticeKeywords)
      /\ isinstance(term, "dict")
      /\ truthy(get(term.d, "termination_reason_text"))
      /\ is_terminated_of(term) # NoneV
      /\ is_terminated_of(term).i = 1

\* 3) 'no notice' vs termination_reason_text
rule_no_notice(transcript, worker_db) ==
  LET term == term_of(worker_db)
  IN  /\ any_in(lower(or_empty(transcript)), NoNoticeKeywords)
      /\ isinstance(term, "dict")
      /\ truthy(get(term.d, "termination_reason_text"))

\* variant: any() for all(): one compliant order is enough
rule_not_paid_any_compliant(transcript, worker_db) ==
  LET orders == py_or(get(worker_db, "orders"), ListV(<<>>))
  IN  /\ any_in(lower(or_empty(transcript)), NotPaidKeywords)
      /\ isinstance(orders, "list")
      /\ truthy(orders)
      /\ \E k \in 1..Len(orders.l) :
           /\ "payment_compliant" \in DOMAIN orders.l[k].d
           /\ in_truthy_flags(get(orders.l[k].d, "payment_compliant"))

\* 4) not paid vs payment_compliant == 1 for orders
rule_not_paid(transcript, worker_db) ==
  LET orders == py_or(get(worker_db, "orders"), ListV(<<>>))
  IN  /\ any_in(lower(or_empty(transcript)), NotPaidKeywords)
      /\ isinstance(orders, "list")
      /\ truthy(orders)
      /\ \E k \in 1..Len(orders.l) : "payment_compliant" \in DOMAIN orders.l[k].d
      /\ \A k \in 1..Len(orders.l) :
           "payment_compliant" \in DOMAIN orders.l[k].d
             => in_truthy_flags(get(orders.l[k].d, "payment_compliant"))

check_discrepancy(transcript, worker_db) ==
  \/ rule_termination(transcript, worker_db)
  \/ rule_payout(transcript, worker_db)
  \/ rule_no_notice(transcript, worker_db)
  \/ rule_not_paid(transcript, worker_db)

(***************************************************************************)
(* get_relevant_db_fields(transcript, worker_db)                           *)
(***************************************************************************)
OrdersThreshold == 10

WorkerTopLevelKeys == {"name", "phone", "email", "joined_at", "current_status"}

\* o.get("payment_compliant") in (0, "0", False) or "reduction_reason" in o
\*   or "payout_amount" in o
order_is_kept(o) ==
  \/ in_falsy_flags(get(o.d, "payment_compliant"))
  \/ "reduction_reason" \in DOMAIN o.d
  \/ "payout_amount" \in DOMAIN o.d

\* the value stored under "orders" by the payout branch
payout_branch_orders(orders) ==
  IF isinstance(orders, "list") /\ Len(orders.l) > OrdersThreshold
  THEN LET filtered == SelectSeq(orders.l, order_is_kept)
       IN  IF Len(filtered) > 0 THEN ListV(filtered)
           ELSE ListV(SubSeq(orders.l, 1, OrdersThreshold))
  ELSE orders

\* variant: only a nested worker object is reported, nothing is synthesized
worker_identity_nested_only(worker_db) ==
  IF "worker" \in DOMAIN worker_db THEN <<worker_db["worker"]>> ELSE <<>>

\* the "worker" entry, if any: the nested object, else the top-level worker
\* fields the record has; <<>> when it has neither
worker_identity(worker_db) ==
  LET top == WorkerTopLevelKeys \cap DOMAIN worker_db
  IN  IF "worker" \in DOMAIN worker_db THEN <<worker_db["worker"]>>
      ELSE IF top # {} THEN <<DictV([f \in top |-> worker_db[f]])>>
      ELSE <<>>

get_relevant_db_fields(transcript, worker_db) ==
  LET t == lower(or_empty(transcript))
      has(k) == k \in DOMAIN worker_db
      termination == transcript_mentions_termination(transcript)
                       \/ contains(t, "termination") \/ contains(t, "appeal")
      payment == transcript_mentions_payout_or_paid(transcript)
                   \/ any_in(t, {"payout", "paid", "unpaid", "payment"})
      rating == transcript_mentions_rating_or_algo(transcript)
                  \/ any_in(t, {"rating", "algorithm", "algo", "penalty", "deduct", "deduction"})
      review == contains(t, "review") \/ transcript_mentions_rating_or_algo(transcript)
      keys == {k \in {"termination_status", "termination_logs"} : termination /\ has(k)}
                \cup {k \in {"payouts"} : payment /\ has(k)}
                \cup {k \in {"orders"} : (payment \/ rating) /\ has(k)}
                \cup {k \in {"penalties"} : rating /\ has(k)}
                \cup {k \in {"worker"} : worker_identity(worker_db) # <<>>}
                \cup {k \in {"review_counts"} : review /\ has(k)}
  IN  [k \in keys |->
        CASE k = "orders" ->
               IF payment THEN payout_branch_orders(worker_db["orders"])
               ELSE worker_db["orders"]
          [] k = "worker" -> worker_identity(worker_db)[1]
          [] OTHER -> worker_db[k]]

(***************************************************************************)
(* fallback_local_decision(transcript, worker_db)                          *)
(***************************************************************************)
ValidComplaint == "Valid complaint"
InvalidComplaint == "Invalid complaint"

FallbackTriggers ==
  {"suspend", "suspended", "terminated", "termination", "no notice", "deduct", "penalty",
   "reduced", "unpaid", "not paid", "appeal"}

\* variant: the flag is tested with  not term.get("is_terminated")
fallback_flag_by_truth(transcript, worker_db) ==
  LET t == lower(or_empty(transcript))
      term == py_or(get(worker_db, "termination_status"), EmptyDict)
  IN  IF any_in(t, FallbackTriggers)
      THEN IF isinstance(term, "dict") /\ ~truthy(get(term.d, "is_terminated"))
           THEN InvalidComplaint
           ELSE ValidComplaint
      ELSE InvalidComplaint

fallback_local_decision(transcript, worker_db) ==
  LET t == lower(or_empty(transcript))
      term == py_or(get(worker_db, "termination_status"), EmptyDict)
  IN  IF any_in(t, FallbackTriggers)
      THEN IF isinstance(term, "dict") /\ in_falsy_flags(get(term.d, "is_terminated"))
           THEN InvalidComplaint
           ELSE ValidComplaint
      ELSE InvalidComplaint

\* variant: the substring tests come first, "valid" before "invalid"
decide_by_substring(decision, transcript, worker_db) ==
  LET dec == lower(strip(decision))
  IN  IF contains(dec, "valid") THEN ValidComplaint
      ELSE IF contains(dec, "invalid") THEN InvalidComplaint
      ELSE fallback_local_decision(transcript, worker_db)

\* variant: text with a second label after "invalid" or before it is left
\* to the fallback
decide_unless_both_labels(decision, transcript, worker_db) ==
  LET dec == lower(strip(decision))
      both == \E i, j \in 1..Len(dec) :
                /\ i + 6 <= Len(dec) /\ SubSeq(dec, i, i + 6) = "invalid"
                /\ j + 4 <= Len(dec) /\ SubSeq(dec, j, j + 4) = "valid"
                /\ j # i + 2
  IN  IF both THEN fallback_local_decision(transcript, worker_db)
      ELSE IF startswith(dec, "valid") THEN ValidComplaint
      ELSE IF startswith(dec, "invalid") THEN InvalidComplaint
      ELSE IF contains(dec, "invalid") THEN InvalidComplaint
      ELSE IF contains(dec, "valid") THEN ValidComplaint
      ELSE fallback_local_decision(transcript, worker_db)

\* the decision seek_post reads off a successful classifier reply
decide_from_classifier(decision, transcript, worker_db) ==
  LET dec == lower(strip(decision))
  IN  IF startswith(dec, "valid") THEN ValidComplaint
      ELSE IF startswith(dec, "invalid") THEN InvalidComplaint
      ELSE IF contains(dec, "invalid") THEN InvalidComplaint
      ELSE IF contains(dec, "valid") THEN ValidComplaint
      ELSE fallback_local_decision(transcript, worker_db)

(***************************************************************************)
(* call_gemini_api: the result dict, from the configuration and from what  *)
(* the HTTP POST answers                                                   *)
(***************************************************************************)
\* json.dumps(j)[:2000] of a reply in none of the known shapes
DumpOfUnknownShape == "{\"promptFeedback\": {\"blockReason\": \"SAFETY\"}}"

call_gemini_api(configured, reply) ==
  IF ~configured
  THEN [ok |-> FALSE, error |-> "Gemini not configured (GEMINI_API_KEY missing)", posted |-> FALSE]
  ELSE IF reply.net # "ok"
  THEN [ok |-> FALSE, error |-> reply.net, posted |-> TRUE]
  ELSE IF ~reply.json
  THEN [ok |-> TRUE, decision |-> strip(reply.text), raw |-> "text", posted |-> TRUE]
  ELSE CASE reply.shape \in {"parts_str", "content_str", "outputs_text"} /\ reply.text # "" ->
              [ok |-> TRUE, decision |-> strip(reply.text), raw |-> "json", posted |-> TRUE]
         [] reply.shape = "parts_dict" ->
              \* parts[0] is {"text": ...}: txt.strip() raises, caught at the end
              [ok |-> FALSE, error |-> "Failed to parse Gemini response", posted |-> TRUE]
         [] OTHER ->
              [ok |-> TRUE, decision |-> DumpOfUnknownShape, raw |-> "json", posted |-> TRUE]

(***************************************************************************)
(* Inputs: requests, fetched records, classifier replies                   *)
(***************************************************************************)
MaxPayouts == 2
MaxOrders == 11

WorkerIds == {NoneText, "", "W1"}

Openers ==
  {"", "I was Terminated ", "TERMINATED suddenly ", "I was suspended without reason",
   "Not paid, no notice ", "Penalty on my rating ", "Payout appeal ",
   "Removed immediately ", "Blocked without notice "}

Closers == {"", "paid 500", "paid 500.", "Rs.500 not 1000", "id 1234567 got 450.75"}

\* every opener alone, every closer alone and behind a payout opener, and
\* a termination claim with a figure
Transcripts ==
  {NoneText, "I was Terminated paid 500"}
    \cup Openers
    \cup {a \o b : a \in {"", "Payout appeal "}, b \in Closers}

FlagValues ==
  {IntV(0), IntV(1), BoolV(FALSE), BoolV(TRUE), StrV("0"), StrV("1"), StrV("no"), NoneV}

TermDicts ==
  {f @@ r : f \in {<<>>} \cup {[is_terminated |-> v] : v \in FlagValues},
            r \in {<<>>, [termination_reason_text |-> StrV("")],
                   [termination_reason_text |-> StrV("policy breach")]}}

CamelDicts ==
  {[is_terminated |-> IntV(0)],
   [is_terminated |-> IntV(1), termination_reason_text |-> StrV("policy breach")]}

TermParts ==
  {<<>>, [termination_status |-> NoneV], [termination_status |-> StrV("n/a")]}
    \cup {[termination_status |-> DictV(d)] : d \in TermDicts}
    \cup {[terminationStatus |-> DictV(d)] : d \in CamelDicts}
    \cup {[termination_status |-> EmptyDict, terminationStatus |-> DictV(d)] : d \in CamelDicts}

TermDefaults == {<<>>, [termination_status |-> DictV([is_terminated |-> IntV(1)])]}

PayoutEntries ==
  {DictV([amount |-> IntV(500)]), DictV([amount |-> IntV(600)]), DictV([amount |-> IntV(601)]),
   DictV([amount |-> IntV(1000)]), DictV([note |-> StrV("pending")]),
   DictV([amount |-> StrV("n/a")]), DictV([amount |-> NoneV]), IntV(1000)}

OlderPayout == DictV([amount |-> IntV(2000)])

PayoutLists ==
  {<<e>> \o [k \in 1..n |-> OlderPayout] : e \in PayoutEntries, n \in 0..(MaxPayouts - 1)}

PayParts ==
  {<<>>, [payouts |-> NoneV], [payouts |-> ListV(<<>>)], [payouts |-> StrV("n/a")]}
    \cup {[payouts |-> ListV(l)] : l \in PayoutLists}

WorkerRow ==
  [worker_id |-> StrV("W1"), name |-> StrV("Asha"), phone |-> NoneV, email |-> NoneV,
   joined_at |-> NoneV, current_status |-> StrV("active"), notes |-> NoneV]

WorkerParts ==
  {<<>>, [worker |-> DictV(WorkerRow)], [worker |-> NoneV],
   [worker |-> DictV(WorkerRow @@ [payouts |-> ListV(<<DictV([amount |-> IntV(1000)])>>)])],
   [name |-> StrV("Asha"), current_status |-> StrV("active")]}

\* an order as a caller may post it: only the fields it chose to send
sparse_order(id, flag) == DictV([order_id |-> IntV(id), payment_compliant |-> flag])

unflagged_order(id) == DictV([order_id |-> IntV(id)])

\* an order as get_worker_summary returns it: dict(row) of SELECT * FROM orders
\* has every column of the table, NULL columns as None
order_row(id, flag) ==
  DictV([order_id |-> IntV(id), worker_id |-> StrV("W1"), order_date |-> NoneV,
         distance_km |-> NoneV, duration_min |-> NoneV, payout_amount |-> IntV(80),
         status |-> NoneV, flags |-> NoneV, payment_compliant |-> flag,
         reduction_reason |-> NoneV])

long_orders(n, bad, rows) ==
  [k \in 1..n |->
     LET flag == IF k \in bad THEN IntV(0) ELSE IntV(1)
     IN  IF rows THEN order_row(k, flag) ELSE sparse_order(k, flag)]

OrderLists ==
  {<<>>, <<sparse_order(1, IntV(1))>>, <<sparse_order(1, IntV(1)), sparse_order(2, IntV(0))>>,
   <<unflagged_order(1)>>, <<sparse_order(1, BoolV(TRUE)), unflagged_order(2)>>,
   <<sparse_order(1, StrV("1")), sparse_order(2, NoneV)>>,
   <<order_row(1, IntV(1)), order_row(2, IntV(1))>>}
    \cup {long_orders(n, bad, rows) :
            n \in OrdersThreshold..MaxOrders, bad \in {{}, {3, 7}}, rows \in BOOLEAN}

OrderParts == {<<>>, [orders |-> NoneV]} \cup {[orders |-> ListV(l)] : l \in OrderLists}

ExtraParts ==
  {<<>>,
   [termination_logs |-> ListV(<<>>), review_counts |-> DictV([total_reviews |-> IntV(3)]),
    penalties |-> ListV(<<DictV([amount |-> IntV(50)])>>)]}

\* the dicts a fetch may return: each family varies one part in full
Records ==
  {t @@ p @@ [orders |-> ListV(<<sparse_order(1, IntV(1))>>)] :
     t \in TermParts, p \in {[payouts |-> ListV(<<DictV([amount |-> IntV(500)])>>)]}}
    \cup {t @@ p : t \in TermDefaults, p \in PayParts}
    \cup {t @@ p @@ w : t \in {<<>>}, p \in {<<>>, [payouts |-> ListV(<<>>)]},
                         w \in WorkerParts}
    \cup {t @@ o @@ x : t \in TermDefaults, o \in OrderParts, x \in {<<>>}}
    \cup {t @@ o @@ x : t \in TermDefaults, o \in {[orders |-> ListV(<<>>)]},
                         x \in ExtraParts}

\* what GET {BASE_WORKER_URL}/{worker_id} answers
FetchReplies ==
  {[net |-> "error"], [net |-> "ok", status |-> 404], [net |-> "ok", status |-> 500],
   [net |-> "ok", status |-> 200, json |-> FALSE, text |-> "<html>"],
   [net |-> "ok", status |-> 304, json |-> FALSE, text |-> ""]}
    \cup {[net |-> "ok", status |-> 200, json |-> TRUE, data |-> r] : r \in Records}

ClassifierTexts ==
  {"Invalid complaint.", "  INVALID complaint\n", "Valid complaint", " VALID.",
   "The complaint is invalid", "I think it is valid", "Valid complaint or Invalid complaint",
   "Either valid or invalid", "Cannot decide"}

\* what the POST to the generateContent endpoint answers
GeminiReplies ==
  {[net |-> "timeout"],
   [net |-> "ok", json |-> FALSE, text |-> " Invalid complaint"],
   [net |-> "ok", json |-> TRUE, shape |-> "parts_dict", text |-> "Valid complaint"],
   [net |-> "ok", json |-> TRUE, shape |-> "outputs_text", text |-> "invalid complaint"],
   [net |-> "ok", json |-> TRUE, shape |-> "unknown", text |-> ""]}
    \cup {[net |-> "ok", json |-> TRUE, shape |-> "parts_str", text |-> x] :
            x \in ClassifierTexts}

(***************************************************************************)
(* The /seek handler.  seek_post keeps nothing from one request to the     *)
(* next, so a behaviour follows one request from receipt to response.      *)
(***************************************************************************)
VARIABLES
  body,               \* the posted SeekPostRequest fields
  pc,                 \* where seek_post stands
  external_data,      \* result of fetch_worker_from_external, NoneV before
  saved_path,         \* result of save_json_to_file, "" before
  gemini_resp,        \* result of call_gemini_api, NoneV before
  response,           \* the HTTP response, NoneV before
  calls,              \* how often this request fetched, saved, called the classifier
  workers,            \* the simulator's tables, each a bag of rows
  orders,
  termination_status,
  termination_logs,
  review_counts,
  last,               \* the simulator's last operation and its HTTP status
  now,                \* the clock datetime.utcnow() reads, in ticks
  inflight,           \* the /seek requests being served side by side, by thread
  seek_results        \* SAVE_DIR: file path |-> what was written to the file

seek_vars == <<body, pc, external_data, saved_path, gemini_resp, response, calls>>

tables == <<workers, orders, termination_status, termination_logs, review_counts>>

sim_vars == <<tables, last>>

audit_vars == <<now, inflight, seek_results>>

vars == <<seek_vars, sim_vars, audit_vars>>

NoCalls == [fetch |-> 0, save |-> 0, gemini |-> 0]

Requests == [workerId : WorkerIds, transcript : Transcripts]

Fresh(b) ==
  /\ body = b
  /\ pc = "received"
  /\ external_data = NoneV
  /\ saved_path = ""
  /\ gemini_resp = NoneV
  /\ response = NoneV
  /\ calls = NoCalls

EmptyTable == <<>>

\* the tables after init_db.py has run the schema script: no rows
EmptyTables ==
  /\ workers = EmptyTable
  /\ orders = EmptyTable
  /\ termination_status = EmptyTable
  /\ termination_logs = EmptyTable
  /\ review_counts = EmptyTable
  /\ last = [op |-> "none", status |-> 0]

\* the threads of the pool that runs seek_post, a plain  def  endpoint
SeekThreads == {1, 2}

Idle == [pc |-> "idle"]

\* no request in the pool, SAVE_DIR as  mkdir(exist_ok=True)  leaves a new one
NoAudit ==
  /\ now = 0
  /\ inflight = [q \in SeekThreads |-> Idle]
  /\ seek_results = <<>>

Init ==
  /\ \E b \in Requests : Fresh(b)
  /\ EmptyTables
  /\ NoAudit

error_response(code, detail) == [status |-> code, detail |-> detail]

\* variant: the  if not worker_id  test is missing
seek_validate_required_only ==
  /\ pc = "received"
  /\ IF body.workerId = NoneText
     THEN /\ response' = error_response(422, "field required")
          /\ pc' = "done"
     ELSE /\ pc' = "fetch"
          /\ UNCHANGED response
  /\ UNCHANGED <<body, external_data, saved_path, gemini_resp, calls, sim_vars, audit_vars>>

\* request validation (workerId: str is required) and  if not worker_id
seek_validate ==
  /\ pc = "received"
  /\ IF body.workerId = NoneText
     THEN /\ response' = error_response(422, "field required")
          /\ pc' = "done"
     ELSE IF body.workerId = ""
     THEN /\ response' = error_response(400, "workerId is required")
          /\ pc' = "done"
     ELSE /\ pc' = "fetch"
          /\ UNCHANGED response
  /\ UNCHANGED <<body, external_data, saved_path, gemini_resp, calls, sim_vars, audit_vars>>

\* GET {BASE_WORKER_URL}/{worker_id}: a request exception or raise_for_status
\* (a 4xx or 5xx status) raises; a body that does not parse as JSON is kept
\* as {"_raw": text}
fetch_worker_from_external(r) ==
  IF r.net # "ok" \/ r.status >= 400
  THEN [raised |-> TRUE]
  ELSE [raised |-> FALSE,
        value |-> DictV(IF r.json THEN r.data ELSE [_raw |-> StrV(r.text)])]

\* variant: a failed fetch is tried once more before it is given up
seek_fetch_retry_once(r) ==
  /\ IF fetch_worker_from_external(r).raised
     THEN IF calls.fetch = 0
          THEN /\ pc' = "fetch"
               /\ UNCHANGED <<response, external_data>>
          ELSE /\ response' = error_response(502, "Failed to fetch from external")
               /\ pc' = "done"
               /\ UNCHANGED external_data
     ELSE /\ external_data' = fetch_worker_from_external(r).value
          /\ pc' = "save"
          /\ UNCHANGED response
  /\ calls' = [calls EXCEPT !.fetch = @ + 1]
  /\ UNCHANGED <<body, saved_path, gemini_resp, sim_vars, audit_vars>>

\* 1) fetch DB, when the external store answers r
seek_fetch_reply(r) ==
  /\ IF fetch_worker_from_external(r).raised
     THEN /\ response' = error_response(502, "Failed to fetch from external")
          /\ pc' = "done"
          /\ UNCHANGED external_data
     ELSE /\ external_data' = fetch_worker_from_external(r).value
          /\ pc' = "save"
          /\ UNCHANGED response
  /\ calls' = [calls EXCEPT !.fetch = @ + 1]
  /\ UNCHANGED <<body, saved_path, gemini_resp, sim_vars, audit_vars>>

seek_fetch ==
  /\ pc = "fetch"
  /\ \E r \in FetchReplies : seek_fetch_reply(r)

\* variant: a failed write is passed over and the handler goes on
seek_save_continue_on_failure ==
  /\ pc = "save"
  /\ \E written \in BOOLEAN :
       saved_path' = IF written THEN "seek_results/seek_" \o body.workerId \o "_ts.json" ELSE ""
  /\ pc' = "check"
  /\ calls' = [calls EXCEPT !.save = @ + 1]
  /\ UNCHANGED <<body, external_data, gemini_resp, response, sim_vars, audit_vars>>

\* 2) save JSON file (meta + db): save_json_to_file
seek_save ==
  /\ pc = "save"
  /\ \E written \in BOOLEAN :
       IF written
       THEN /\ saved_path' = "seek_results/seek_" \o body.workerId \o "_ts.json"
            /\ pc' = "check"
            /\ UNCHANGED response
       ELSE /\ response' = error_response(500, "Failed to save file")
            /\ pc' = "done"
            /\ UNCHANGED saved_path
  /\ calls' = [calls EXCEPT !.save = @ + 1]
  /\ UNCHANGED <<body, external_data, gemini_resp, sim_vars, audit_vars>>

\* variant: the discrepancy is noted but the classifier is asked all the same
seek_check_then_classify ==
  /\ pc = "check"
  /\ pc' = "classify"
  /\ UNCHANGED <<body, external_data, saved_path, gemini_resp, response, calls, sim_vars, audit_vars>>

\* 3) local discrepancy check (company DB precedence)
seek_check ==
  /\ pc = "check"
  /\ IF check_discrepancy(body.transcript, external_data.d)
     THEN /\ response' =
               [status |-> 200, final_decision |-> InvalidComplaint,
                relevant_db |-> get_relevant_db_fields(body.transcript, external_data.d)]
          /\ pc' = "done"
     ELSE /\ pc' = "classify"
          /\ UNCHANGED response
  /\ UNCHANGED <<body, external_data, saved_path, gemini_resp, calls, sim_vars, audit_vars>>

\* variant: the fallback answer leaves out the classifier's error message
seek_classify_drops_error ==
  /\ pc = "classify"
  /\ LET relevant == get_relevant_db_fields(body.transcript, external_data.d)
         fallback == fallback_local_decision(or_empty(body.transcript), external_data.d)
     IN  \E configured \in BOOLEAN, reply \in GeminiReplies :
           LET resp == call_gemini_api(configured, reply)
           IN  /\ gemini_resp' = resp
               /\ response' =
                    IF resp.ok
                    THEN [status |-> 200,
                          final_decision |->
                            decide_from_classifier(resp.decision, or_empty(body.transcript),
                                                   external_data.d),
                          relevant_db |-> relevant, gemini_raw |-> resp.raw]
                    ELSE [status |-> 200, final_decision |-> fallback,
                          relevant_db |-> relevant]
  /\ calls' = [calls EXCEPT !.gemini = @ + 1]
  /\ pc' = "done"
  /\ UNCHANGED <<body, external_data, saved_path, sim_vars, audit_vars>>

\* 4) call gemini if available, else the local fallback; configured is
\* bool(GEMINI_API_KEY), read from the environment the process was started in
seek_classify ==
  /\ pc = "classify"
  /\ LET relevant == get_relevant_db_fields(body.transcript, external_data.d)
         fallback == fallback_local_decision(or_empty(body.transcript), external_data.d)
     IN  \E configured \in BOOLEAN, reply \in GeminiReplies :
           LET resp == call_gemini_api(configured, reply)
           IN  /\ gemini_resp' = resp
               /\ response' =
                    IF resp.ok
                    THEN [status |-> 200,
                          final_decision |->
                            decide_from_classifier(resp.decision, or_empty(body.transcript),
                                                   external_data.d),
                          relevant_db |-> relevant, gemini_raw |-> resp.raw]
                    ELSE [status |-> 200, final_decision |-> fallback,
                          relevant_db |-> relevant, gemini_error |-> resp.error]
  /\ calls' = [calls EXCEPT !.gemini = @ + 1]
  /\ pc' = "done"
  /\ UNCHANGED <<body, external_data, saved_path, sim_vars, audit_vars>>

Next ==
  \/ seek_validate
  \/ seek_fetch
  \/ seek_save
  \/ seek_check
  \/ seek_classify

Spec == Init /\ [][Next]_vars

(***************************************************************************)
(* What a state shows of the request it follows                            *)
(***************************************************************************)
\* the handler got a record and an audit file and ran the discrepancy check
Checked == pc = "classify" \/ (pc = "done" /\ response.status = 200)

\* seek_check has just acted
JustChecked == pc = "classify" \/ (pc = "done" /\ response.status = 200 /\ gemini_resp = NoneV)

\* the request was answered from the discrepancy check alone
ShortCircuited == pc = "done" /\ response.status = 200 /\ gemini_resp = NoneV

\* the request was answered after call_gemini_api returned
Classified == pc = "done" /\ response.status = 200 /\ gemini_resp # NoneV

FalseFlags == {IntV(0), BoolV(FALSE), StrV("0")}

TrueFlags == {IntV(1), BoolV(TRUE), StrV("1")}

(***************************************************************************)
(* C1: whenever check_discrepancy is true of the request's transcript and  *)
(* fetched record, seek_post answers "Invalid complaint" with the          *)
(* relevance-extracted fields and call_gemini_api is never called for that *)
(* request.                                                                *)
(***************************************************************************)
C1_DiscrepancyShortCircuits ==
  (external_data # NoneV /\ saved_path # ""
     /\ check_discrepancy(body.transcript, external_data.d))
    => /\ pc \in {"check", "done"}
       /\ calls.gemini = 0
       /\ gemini_resp = NoneV
       /\ pc = "done" =>
            response = [status |-> 200, final_decision |-> InvalidComplaint,
                        relevant_db |->
                          get_relevant_db_fields(body.transcript, external_data.d)]

C1_Witness ==
  /\ ShortCircuited
  /\ check_discrepancy(body.transcript, external_data.d)
  /\ response.final_decision = InvalidComplaint
  /\ "termination_status" \in DOMAIN response.relevant_db

(***************************************************************************)
(* C2: a transcript holding the word "terminated" in any letter case and a *)
(* record whose termination status has a false terminated flag make        *)
(* check_discrepancy true, whatever else the record holds: the request is  *)
(* answered "Invalid complaint" by the short circuit.                      *)
(***************************************************************************)
C2_TerminatedVsFalseFlag ==
  LET term == term_of(external_data.d)
  IN  (Checked
         /\ contains(lower(or_empty(body.transcript)), "terminated")
         /\ isinstance(term, "dict")
         /\ "is_terminated" \in DOMAIN term.d
         /\ term.d["is_terminated"] \in FalseFlags)
        => /\ check_discrepancy(body.transcript, external_data.d)
           /\ ShortCircuited
           /\ response.final_decision = InvalidComplaint

C2_Witness ==
  /\ ShortCircuited
  /\ contains(or_empty(body.transcript), "TERMINATED")
  /\ "termination_status" \in DOMAIN external_data.d
  /\ external_data.d["termination_status"] = DictV([is_terminated |-> StrV("0")])

(***************************************************************************)
(* C3: for a transcript without any digit the payout rule does not fire,   *)
(* and the outcome of the discrepancy check the handler acted on is the    *)
(* outcome for every other payouts value put in the same record.           *)
(***************************************************************************)
C3_NoFigureNoPayoutRule ==
  LET text == or_empty(body.transcript)
      rest == [k \in DOMAIN external_data.d \ {"payouts"} |-> external_data.d[k]]
  IN  (JustChecked /\ \A i \in 1..Len(text) : ~IsDigit(CharAt(text, i)))
        => /\ ~rule_payout(body.transcript, external_data.d)
           /\ \A p \in PayParts :
                check_discrepancy(body.transcript, p @@ rest) = ShortCircuited

C3_Witness ==
  /\ pc = "classify"
  /\ body.transcript = "Payout appeal "
  /\ "payouts" \in DOMAIN external_data.d
  /\ external_data.d["payouts"] = ListV(<<DictV([amount |-> IntV(1000)]), OlderPayout>>)

(***************************************************************************)
(* C4: the payout rule fires exactly when the transcript holds a number of *)
(* 1 to 6 digits, optionally with a point and 1 or 2 decimals, that is not *)
(* adjacent to other digits, and the amount of the first payout differs    *)
(* from the first such number by more than 100.                            *)
(* The source pattern also refuses a number next to a point, so "500." at  *)
(* the end of a sentence and "Rs.500" yield no amount.                     *)
(***************************************************************************)
C4_PayoutRuleExactly ==
  LET s == or_empty(body.transcript)
      digit(i) == IsDigit(CharAt(s, i))
      \* a number as the claim describes it starts at i with n integer digits
      starts(i, n) ==
        /\ ~digit(i - 1)
        /\ \A k \in i..(i + n - 1) : digit(k)
        /\ ~digit(i + n)
      \* the last position of that number
      ends(i, n) ==
        LET e == i + n - 1
        IN  IF CharAt(s, e + 1) = "." /\ digit(e + 2) /\ digit(e + 3) /\ ~digit(e + 4)
            THEN e + 3
            ELSE IF CharAt(s, e + 1) = "." /\ digit(e + 2) /\ ~digit(e + 3) THEN e + 2
            ELSE e
      found == {<<i, n>> \in (1..Len(s)) \X (1..MaxIntDigits) : starts(i, n)}
      first == CHOOSE m \in found : \A o \in found : m[1] <= o[1]
      payouts == payouts_of(external_data.d)
      amount == py_float(get_default(payouts.l[1].d, "amount", IntV(0)))
      claimed ==
        /\ found # {}
        /\ isinstance(payouts, "list") /\ truthy(payouts)
        /\ isinstance(payouts.l[1], "dict")
        /\ amount.ok
        /\ Abs(amount.c - parse_amount(SubSeq(s, first[1], ends(first[1], first[2]))))
             > 100 * PayoutTolerance
  IN  JustChecked => (rule_payout(body.transcript, external_data.d) <=> claimed)

(***************************************************************************)
(* C5: with a transcript that triggers the payout branch and a record of   *)
(* 11 orders of which only 2 carry a non-compliant payment flag, the       *)
(* "orders" of the returned fields are exactly those 2 orders.             *)
(* An order as the record store returns it has every column, so            *)
(* "reduction_reason" in o  and  "payout_amount" in o  hold for all 11.    *)
(***************************************************************************)
C5_OnlyNonCompliantOrders ==
  LET db == external_data.d
      t == lower(or_empty(body.transcript))
      non_compliant(o) ==
        "payment_compliant" \in DOMAIN o.d /\ o.d["payment_compliant"] \in FalseFlags
  IN  (pc = "done" /\ response.status = 200
         /\ any_in(t, PayoutKeywords)
         /\ "orders" \in DOMAIN db
         /\ isinstance(db["orders"], "list")
         /\ Len(db["orders"].l) = 11
         /\ Cardinality({k \in 1..11 : non_compliant(db["orders"].l[k])}) = 2)
        => /\ "orders" \in DOMAIN response.relevant_db
           /\ response.relevant_db["orders"] = ListV(SelectSeq(db["orders"].l, non_compliant))

(***************************************************************************)
(* C6: without a discrepancy and with a successful classifier call, a      *)
(* classifier text that begins, once trimmed, with "invalid" in any letter *)
(* case gives "Invalid complaint", one that begins with "valid" gives      *)
(* "Valid complaint".                                                      *)
(***************************************************************************)
C6_ClassifierPrefixDecides ==
  (Classified /\ gemini_resp.ok)
    => LET text == lower(strip(gemini_resp.decision))
       IN  /\ startswith(text, "invalid") => response.final_decision = InvalidComplaint
           /\ startswith(text, "valid") => response.final_decision = ValidComplaint

C6_Witness ==
  /\ Classified
  /\ gemini_resp.ok
  /\ gemini_resp.decision = "Invalid complaint."
  /\ response.final_decision = InvalidComplaint
  /\ fallback_local_decision(or_empty(body.transcript), external_data.d) = ValidComplaint

C7_WitnessUnparseable ==
  /\ Classified
  /\ gemini_resp.ok
  /\ gemini_resp.decision = "Cannot decide"
  /\ response.final_decision = InvalidComplaint
  /\ any_in(lower(or_empty(body.transcript)), FallbackTriggers)

(***************************************************************************)
(* C8: the transcript "I was suspended without reason" and a record whose  *)
(* termination flag is true fire none of the four discrepancy rules,       *)
(* whatever the payouts, orders and reason text are, and with the          *)
(* classifier unreachable the decision is "Valid complaint".               *)
(***************************************************************************)
SuspendedTranscript == "I was suspended without reason"

C8_SuspendedWithTrueFlag ==
  LET db == external_data.d
      term == term_of(db)
  IN  (Checked
         /\ body.transcript = SuspendedTranscript
         /\ isinstance(term, "dict")
         /\ "is_terminated" \in DOMAIN term.d
         /\ term.d["is_terminated"] \in TrueFlags)
        => /\ ~rule_termination(body.transcript, db)
           /\ ~rule_payout(body.transcript, db)
           /\ ~rule_no_notice(body.transcript, db)
           /\ ~rule_not_paid(body.transcript, db)
           /\ ~ShortCircuited
           /\ (pc = "done" /\ ~gemini_resp.ok) => response.final_decision = ValidComplaint

C8_Witness ==
  /\ Classified
  /\ body.transcript = SuspendedTranscript
  /\ gemini_resp.ok = FALSE
  /\ gemini_resp.error = "timeout"
  /\ response.final_decision = ValidComplaint
  /\ "termination_status" \in DOMAIN external_data.d
  /\ external_data.d["termination_status"] =
       DictV([is_terminated |-> BoolV(TRUE), termination_reason_text |-> StrV("policy breach")])

(***************************************************************************)
(* C10: a request whose workerId is absent or empty is rejected with a     *)
(* client error; no record is fetched, no audit file is written and the    *)
(* classifier is not called for it.                                        *)
(***************************************************************************)
C10_MissingWorkerIdRejected ==
  body.workerId \in {NoneText, ""}
    => /\ pc \in {"received", "done"}
       /\ calls = NoCalls
       /\ external_data = NoneV /\ saved_path = "" /\ gemini_resp = NoneV
       /\ pc = "done" => response.status \in 400..499

C10_Witness ==
  /\ pc = "done"
  /\ body.workerId = ""
  /\ response.status = 400

(***************************************************************************)
(* The platform simulator: utils.py on the SQLite tables, app.py in front. *)
(* A table is a bag of rows (row |-> number of copies).  What the missing  *)
(* schema script contributes - which inserts raise IntegrityError, which   *)
(* column INSERT OR REPLACE replaces on, how log_id is assigned - follows  *)
(* the data model of the specification.                                    *)
(***************************************************************************)
MaxOrderId == 1
\* log ids grow without end; logs are added while the next id is at most this
MaxLogs == 1

SimWorkerIds == {"W1", "W2"}
WorkerNames == {"Asha", "Ravi"}
OrderIds == 1..MaxOrderId
Null == "NULL"

\* bag helpers: INSERT one row, DELETE ... WHERE, SELECT ... WHERE
insert_row(table, row) ==
  [r \in DOMAIN table \cup {row} |-> IF r \in DOMAIN table THEN
                                        (IF r = row THEN table[r] + 1 ELSE table[r])
                                      ELSE 1]

rows_where(table, col, v) == {r \in DOMAIN table : r[col] = v}

delete_where(table, col, v) == [r \in DOMAIN table \ rows_where(table, col, v) |-> table[r]]

RECURSIVE SumCopies(_, _)
SumCopies(table, rs) ==
  IF rs = {} THEN 0
  ELSE LET r == CHOOSE r \in rs : TRUE IN table[r] + SumCopies(table, rs \ {r})

\* cur.rowcount of DELETE ... WHERE col = v
rowcount(table, col, v) == SumCopies(table, rows_where(table, col, v))

\* workers.worker_id is unique: a second row with the same id raises IntegrityError
workers_integrity_error(row) == rows_where(workers, "worker_id", row.worker_id) # {}

\* orders.order_id is unique; sqlite3 connections leave foreign keys unenforced
\* unless PRAGMA foreign_keys = ON is issued, which _get_conn never does
orders_integrity_error(row) == rows_where(orders, "order_id", row.order_id) # {}

\* INSERT OR REPLACE: the rows that clash on the unique worker_id go first
insert_or_replace(table, row) ==
  insert_row(delete_where(table, "worker_id", row.worker_id), row)

\* the log_id SQLite gives a new termination_logs row
next_log_id ==
  IF DOMAIN termination_logs = {} THEN 1
  ELSE 1 + (CHOOSE m \in {r.log_id : r \in DOMAIN termination_logs} :
              \A r \in DOMAIN termination_logs : r.log_id <= m)

\* get_worker_summary: cur.fetchone() is None when no row matches
get_worker_summary(worker_id) ==
  [worker |-> rows_where(workers, "worker_id", worker_id),
   orders |-> rows_where(orders, "worker_id", worker_id),
   termination_status |-> rows_where(termination_status, "worker_id", worker_id),
   termination_logs |-> rows_where(termination_logs, "worker_id", worker_id),
   review_counts |-> rows_where(review_counts, "worker_id", worker_id)]

\* the status GET /workers/{worker_id} answers with
api_get_worker_summary_status(worker_id) ==
  IF get_worker_summary(worker_id).worker = {} THEN 404 ELSE 200

reply(op, status) == last' = [op |-> op, status |-> status]

\* request bodies: a key that is not sent is not in the domain; W1 is
\* posted with every value, W2 with the default ones
WorkerPayloads ==
  {<<>>, [name |-> "Asha"]}
    \cup [worker_id : {"W1"}, name : WorkerNames]
    \cup [worker_id : {"W2"}, name : {"Ravi"}]

OrderPayloads ==
  {<<>>, [order_id |-> 1]} \cup [order_id : OrderIds, worker_id : SimWorkerIds]

StatusPayloads ==
  {<<>>} \cup [worker_id : SimWorkerIds]
    \cup [worker_id : {"W1"}, is_terminated : {1}, termination_reason_text : {"fraud"}]

LogPayloads == {<<>>} \cup [worker_id : SimWorkerIds]

\* review counts are posted for W1
ReviewPayloads ==
  {<<>>} \cup [worker_id : {"W1"}] \cup [worker_id : {"W1"}, total_reviews : {5}]

\* GET /workers/{worker_id}
api_get_worker_summary(worker_id) ==
  /\ reply("get_worker_summary", api_get_worker_summary_status(worker_id))
  /\ UNCHANGED <<tables, seek_vars, audit_vars>>

\* variant: INSERT OR REPLACE, a row with the same worker_id is overwritten
api_add_worker_or_replace(payload) ==
  /\ IF payload = <<>> \/ "worker_id" \notin DOMAIN payload
     THEN reply("add_worker", 400) /\ UNCHANGED workers
     ELSE LET row == [worker_id |-> payload.worker_id, name |-> get_default(payload, "name", Null)]
          IN  reply("add_worker", 201) /\ workers' = insert_or_replace(workers, row)
  /\ UNCHANGED <<orders, termination_status, termination_logs, review_counts, seek_vars, audit_vars>>

\* POST /workers: add_worker
api_add_worker(payload) ==
  /\ IF payload = <<>> \/ "worker_id" \notin DOMAIN payload
     THEN reply("add_worker", 400) /\ UNCHANGED workers
     ELSE LET row == [worker_id |-> payload.worker_id, name |-> get_default(payload, "name", Null)]
          IN  IF workers_integrity_error(row)
              THEN reply("add_worker", 409) /\ UNCHANGED workers
              ELSE reply("add_worker", 201) /\ workers' = insert_row(workers, row)
  /\ UNCHANGED <<orders, termination_status, termination_logs, review_counts, seek_vars, audit_vars>>

\* variant: the DELETE FROM termination_logs is missing
api_remove_worker_keeps_logs(worker_id) ==
  /\ orders' = delete_where(orders, "worker_id", worker_id)
  /\ termination_status' = delete_where(termination_status, "worker_id", worker_id)
  /\ review_counts' = delete_where(review_counts, "worker_id", worker_id)
  /\ workers' = delete_where(workers, "worker_id", worker_id)
  /\ reply("remove_worker", IF rowcount(workers, "worker_id", worker_id) > 0 THEN 200 ELSE 404)
  /\ UNCHANGED <<termination_logs, seek_vars, audit_vars>>

\* DELETE /workers/{worker_id}: remove_worker
api_remove_worker(worker_id) ==
  /\ orders' = delete_where(orders, "worker_id", worker_id)
  /\ termination_status' = delete_where(termination_status, "worker_id", worker_id)
  /\ termination_logs' = delete_where(termination_logs, "worker_id", worker_id)
  /\ review_counts' = delete_where(review_counts, "worker_id", worker_id)
  /\ workers' = delete_where(workers, "worker_id", worker_id)
  /\ reply("remove_worker", IF rowcount(workers, "worker_id", worker_id) > 0 THEN 200 ELSE 404)
  /\ UNCHANGED <<seek_vars, audit_vars>>

\* POST /orders: add_order
api_add_order(payload) ==
  /\ IF payload = <<>> \/ "order_id" \notin DOMAIN payload \/ "worker_id" \notin DOMAIN payload
     THEN reply("add_order", 400) /\ UNCHANGED orders
     ELSE LET row == [order_id |-> payload.order_id, worker_id |-> payload.worker_id]
          IN  IF orders_integrity_error(row)
              THEN reply("add_order", 409) /\ UNCHANGED orders
              ELSE reply("add_order", 201) /\ orders' = insert_row(orders, row)
  /\ UNCHANGED <<workers, termination_status, termination_logs, review_counts, seek_vars, audit_vars>>

\* DELETE /orders/{order_id}: remove_order
api_remove_order(order_id) ==
  /\ orders' = delete_where(orders, "order_id", order_id)
  /\ reply("remove_order", IF rowcount(orders, "order_id", order_id) > 0 THEN 200 ELSE 404)
  /\ UNCHANGED <<workers, termination_status, termination_logs, review_counts, seek_vars, audit_vars>>

\* variant: an UPDATE of the fields sent; a field the call omits keeps the
\* value of the row that is there
api_add_update_termination_status_keeps_omitted(payload) ==
  /\ IF payload = <<>> \/ "worker_id" \notin DOMAIN payload
     THEN reply("add_or_update_termination_status", 400) /\ UNCHANGED termination_status
     ELSE LET old == rows_where(termination_status, "worker_id", payload.worker_id)
              kept(f, default) ==
                IF f \in DOMAIN payload THEN payload[f]
                ELSE IF old = {} THEN default
                ELSE (CHOOSE r \in old : TRUE)[f]
          IN  /\ reply("add_or_update_termination_status", 200)
              /\ termination_status' =
                   insert_or_replace(termination_status,
                     [worker_id |-> payload.worker_id,
                      is_terminated |-> kept("is_terminated", 0),
                      termination_reason_text |-> kept("termination_reason_text", Null)])
  /\ UNCHANGED <<workers, orders, termination_logs, review_counts, seek_vars, audit_vars>>

\* POST /termination_status: add_or_update_termination_status
api_add_update_termination_status(payload) ==
  /\ IF payload = <<>> \/ "worker_id" \notin DOMAIN payload
     THEN reply("add_or_update_termination_status", 400) /\ UNCHANGED termination_status
     ELSE /\ reply("add_or_update_termination_status", 200)
          /\ termination_status' =
               insert_or_replace(termination_status,
                 [worker_id |-> payload.worker_id,
                  is_terminated |-> get_default(payload, "is_terminated", 0),
                  termination_reason_text |->
                    get_default(payload, "termination_reason_text", Null)])
  /\ UNCHANGED <<workers, orders, termination_logs, review_counts, seek_vars, audit_vars>>

\* DELETE /termination_status/{worker_id}: remove_termination_status
api_remove_termination_status(worker_id) ==
  /\ termination_status' = delete_where(termination_status, "worker_id", worker_id)
  /\ reply("remove_termination_status",
           IF rowcount(termination_status, "worker_id", worker_id) > 0 THEN 200 ELSE 404)
  /\ UNCHANGED <<workers, orders, termination_logs, review_counts, seek_vars, audit_vars>>

\* POST /termination_logs: add_termination_log
api_add_termination_log(payload) ==
  /\ IF payload = <<>> \/ "worker_id" \notin DOMAIN payload
     THEN reply("add_termination_log", 400) /\ UNCHANGED termination_logs
     ELSE /\ next_log_id <= MaxLogs
          /\ reply("add_termination_log", 201)
          /\ termination_logs' =
               insert_row(termination_logs,
                 [log_id |-> next_log_id, worker_id |-> payload.worker_id,
                  severity |-> get_default(payload, "severity", 0)])
  /\ UNCHANGED <<workers, orders, termination_status, review_counts, seek_vars, audit_vars>>

\* DELETE /termination_logs/{log_id}: remove_termination_log
api_remove_termination_log(log_id) ==
  /\ termination_logs' = delete_where(termination_logs, "log_id", log_id)
  /\ reply("remove_termination_log",
           IF rowcount(termination_logs, "log_id", log_id) > 0 THEN 200 ELSE 404)
  /\ UNCHANGED <<workers, orders, termination_status, review_counts, seek_vars, audit_vars>>

\* POST /review_counts: add_or_update_review_counts
api_add_update_review_counts(payload) ==
  /\ IF payload = <<>> \/ "worker_id" \notin DOMAIN payload
     THEN reply("add_or_update_review_counts", 400) /\ UNCHANGED review_counts
     ELSE /\ reply("add_or_update_review_counts", 200)
          /\ review_counts' =
               insert_or_replace(review_counts,
                 [worker_id |-> payload.worker_id,
                  total_reviews |-> get_default(payload, "total_reviews", 0)])
  /\ UNCHANGED <<workers, orders, termination_status, termination_logs, seek_vars, audit_vars>>

\* DELETE /review_counts/{worker_id}: remove_review_counts
api_remove_review_counts(worker_id) ==
  /\ review_counts' = delete_where(review_counts, "worker_id", worker_id)
  /\ reply("remove_review_counts",
           IF rowcount(review_counts, "worker_id", worker_id) > 0 THEN 200 ELSE 404)
  /\ UNCHANGED <<workers, orders, termination_status, termination_logs, seek_vars, audit_vars>>

\* no /seek request is in hand while the simulator is looked at on its own
SimInit ==
  /\ body = [workerId |-> NoneText, transcript |-> NoneText]
  /\ pc = "idle"
  /\ external_data = NoneV
  /\ saved_path = ""
  /\ gemini_resp = NoneV
  /\ response = NoneV
  /\ calls = NoCalls
  /\ EmptyTables
  /\ NoAudit

SimNext ==
  \/ \E w \in SimWorkerIds : api_get_worker_summary(w)
  \/ \E p \in WorkerPayloads : api_add_worker(p)
  \/ \E w \in SimWorkerIds : api_remove_worker(w)
  \/ \E p \in OrderPayloads : api_add_order(p)
  \/ \E o \in OrderIds : api_remove_order(o)
  \/ \E p \in StatusPayloads : api_add_update_termination_status(p)
  \/ \E w \in SimWorkerIds : api_remove_termination_status(w)
  \/ \E p \in LogPayloads : api_add_termination_log(p)
  \/ \E l \in 1..MaxLogs : api_remove_termination_log(l)
  \/ \E p \in ReviewPayloads : api_add_update_review_counts(p)
  \/ \E w \in SimWorkerIds : api_remove_review_counts(w)

SimSpec == SimInit /\ [][SimNext]_vars

(***************************************************************************)
(* C9: once remove_worker(w) has deleted the worker w, no row of orders,   *)
(* termination_status, termination_logs or review_counts is keyed by w,    *)
(* and GET /workers/w answers not-found, whatever was inserted or upserted *)
(* for w before.                                                           *)
(***************************************************************************)
C9_RemoveWorkerCascades ==
  [][\A w \in SimWorkerIds :
       (/\ last'.op = "remove_worker"
        /\ rows_where(workers, "worker_id", w) # {}
        /\ api_remove_worker(w))
         => /\ last'.status = 200
            /\ rows_where(orders', "worker_id", w) = {}
            /\ rows_where(termination_status', "worker_id", w) = {}
            /\ rows_where(termination_logs', "worker_id", w) = {}
            /\ rows_where(review_counts', "worker_id", w) = {}
            /\ rows_where(workers', "worker_id", w) = {}
            /\ api_get_worker_summary_status(w)' = 404]_vars

C9_Witness ==
  /\ last = [op |-> "remove_worker", status |-> 200]
  /\ rows_where(workers, "worker_id", "W1") = {}
  /\ rows_where(workers, "worker_id", "W2") # {}
  /\ rows_where(orders, "worker_id", "W2") # {}
  /\ rows_where(termination_status, "worker_id", "W2") # {}
  /\ rows_where(termination_logs, "worker_id", "W2") # {}

(***************************************************************************)
(* C11: every failure of the worker-record fetch ends the request with the *)
(* gateway error 502 after a single fetch attempt, with no audit file      *)
(* written and no decision produced.                                       *)
(***************************************************************************)
\* the request ends here with 502: one fetch, no audit file, no classifier call
EndsWithGatewayError ==
  /\ pc' = "done"
  /\ response' = error_response(502, "Failed to fetch from external")
  /\ calls' = [fetch |-> 1, save |-> 0, gemini |-> 0]
  /\ saved_path' = ""
  /\ gemini_resp' = NoneV

\* a request answered with an error takes no further step
ErrorIsFinal == (pc = "done" /\ response.status # 200) => UNCHANGED vars

\* C11 as claimed: a network error, a non-2xx status and a body that is not
\* well-formed JSON all end the request with the gateway error
C11_EveryFetchFailureIsGatewayError ==
  [][/\ \A r \in FetchReplies :
          (pc = "fetch" /\ seek_fetch_reply(r)
             /\ (r.net # "ok" \/ r.status \notin 200..299 \/ ~r.json))
            => EndsWithGatewayError
     /\ ErrorIsFinal]_vars

\* C11 as amended: a network error and an HTTP error status (4xx, 5xx) end
\* the request with the gateway error 502 after one fetch attempt, with no
\* audit file and no decision; a body that is not well-formed JSON is no
\* failure: it becomes the record {"_raw": text} and the request goes on to
\* the audit write
C11_FetchErrorIsGatewayError ==
  [][/\ \A r \in FetchReplies :
          (pc = "fetch" /\ seek_fetch_reply(r))
            => IF r.net # "ok" \/ r.status \in 400..599
               THEN EndsWithGatewayError
               ELSE /\ pc' = "save"
                    /\ response' = NoneV
                    /\ calls'.fetch = 1
                    /\ ~r.json => external_data' = DictV([_raw |-> StrV(r.text)])
     /\ ErrorIsFinal]_vars

C11_Witness ==
  /\ pc = "done"
  /\ response = error_response(502, "Failed to fetch from external")
  /\ calls.fetch = 1

(***************************************************************************)
(* C12: the audit file is written after the fetch has succeeded and before *)
(* the discrepancy check and any classifier call; a failed write ends the  *)
(* request with the server error 500 and no discrepancy check, classifier  *)
(* call or decision follows.                                               *)
(***************************************************************************)
\* this step is the audit write, successful or not
AuditWriteStep == calls'.save = calls.save + 1

\* this step runs the discrepancy check or calls the classifier
CheckOrClassifyStep == pc \in {"check", "classify"} /\ pc' # pc

C12_AuditBeforeCheck ==
  [][/\ AuditWriteStep =>
          /\ external_data # NoneV
          /\ calls = [fetch |-> 1, save |-> 0, gemini |-> 0]
          /\ response = NoneV
          /\ IF saved_path' = ""
             THEN /\ pc' = "done"
                  /\ response' = error_response(500, "Failed to save file")
                  /\ calls'.gemini = 0
                  /\ gemini_resp' = NoneV
             ELSE pc' = "check" /\ response' = NoneV
     /\ CheckOrClassifyStep =>
          /\ calls.save = 1
          /\ saved_path # ""
          /\ external_data # NoneV
     /\ calls'.gemini > calls.gemini => pc = "classify"
     /\ ErrorIsFinal]_vars

C12_Witness ==
  /\ pc = "classify"
  /\ calls = [fetch |-> 1, save |-> 1, gemini |-> 0]
  /\ saved_path # ""

C12_WitnessWriteFailed ==
  /\ pc = "done"
  /\ response = error_response(500, "Failed to save file")
  /\ calls = [fetch |-> 1, save |-> 1, gemini |-> 0]

(***************************************************************************)
(* C13: every successful /seek response holds the final decision and the   *)
(* relevance-extracted fields, and also the raw classifier payload or the  *)
(* classifier error message.                                               *)
(***************************************************************************)
Succeeded == pc = "done" /\ response.status = 200

HasDecisionAndRelevant ==
  /\ response.final_decision \in {ValidComplaint, InvalidComplaint}
  /\ response.relevant_db = get_relevant_db_fields(body.transcript, external_data.d)

\* C13 as claimed: on every path
C13_ResponseAlwaysObservable ==
  Succeeded =>
    /\ HasDecisionAndRelevant
    /\ "gemini_raw" \in DOMAIN response \/ "gemini_error" \in DOMAIN response

\* C13 as amended: every successful response holds the final decision and
\* the relevance-extracted fields; on every path on which the classifier was
\* called it also holds the raw classifier payload (the call succeeded) or
\* the classifier error message (it failed); the response of the
\* discrepancy short-circuit, where no classifier call is made, holds the
\* decision and the fields only
C13_ResponseObservableWhenClassified ==
  Succeeded =>
    /\ HasDecisionAndRelevant
    /\ IF gemini_resp = NoneV
       THEN DOMAIN response = {"status", "final_decision", "relevant_db"}
       ELSE IF gemini_resp.ok
       THEN /\ DOMAIN response = {"status", "final_decision", "relevant_db", "gemini_raw"}
            /\ response.gemini_raw = gemini_resp.raw
       ELSE /\ DOMAIN response = {"status", "final_decision", "relevant_db", "gemini_error"}
            /\ response.gemini_error = gemini_resp.error

C13_Witness ==
  /\ Classified
  /\ ~gemini_resp.ok
  /\ "gemini_error" \in DOMAIN response
  /\ response.relevant_db # <<>>

(***************************************************************************)
(* save_json_to_file under concurrent requests.  seek_post is a plain def  *)
(* endpoint, so the server runs each request on a thread of its pool; the  *)
(* threads share the clock and the directory SAVE_DIR and nothing else.    *)
(* A request enters here when its fetch has returned.                      *)
(***************************************************************************)
MaxClock == 3

\* readings of the clock within one second; %S is the finest field of the
\* format in utc_timestamp_str
TicksPerSecond == 2

AuditWorkerIds == {"W1", "W2"}

\* datetime.utcnow().strftime("%Y%m%dT%H%M%SZ"): the reading cut to seconds
utc_timestamp_str(t) ==
  "20240101T00000" \o CharAt(DigitChars, (t \div TicksPerSecond) + 1) \o "Z"

\* SAVE_DIR / f"seek_{worker_id}_{utc_timestamp_str()}.json"
audit_filepath(worker_id, t) ==
  "seek_results/seek_" \o worker_id \o "_" \o utc_timestamp_str(t) \o ".json"

\* the payload seek_post builds for the request on thread q
audit_payload(q) ==
  [requested_worker |-> inflight[q].workerId, called_at |-> inflight[q].called_at,
   thread |-> q]

clock_tick ==
  /\ now < MaxClock
  /\ now' = now + 1
  /\ UNCHANGED <<inflight, seek_results, seek_vars, sim_vars>>

\* the request's fetch has returned and seek_post builds the payload
seek_build_payload(q, w) ==
  /\ inflight[q].pc = "idle"
  /\ inflight' = [inflight EXCEPT ![q] = [pc |-> "save", workerId |-> w, called_at |-> now]]
  /\ UNCHANGED <<now, seek_results, seek_vars, sim_vars>>

\* save_json_to_file: the file name, from the worker id and the clock
save_json_filename(q) ==
  /\ inflight[q].pc = "save"
  /\ "filepath" \notin DOMAIN inflight[q]
  /\ inflight' = [inflight EXCEPT ![q] =
                    @ @@ [filepath |-> audit_filepath(@.workerId, now)]]
  /\ UNCHANGED <<now, seek_results, seek_vars, sim_vars>>

\* save_json_to_file: open(filepath, "w") creates the file or empties it
save_json_open(q) ==
  /\ inflight[q].pc = "save"
  /\ "filepath" \in DOMAIN inflight[q]
  /\ seek_results' = (inflight[q].filepath :> <<>>) @@ seek_results
  /\ inflight' = [inflight EXCEPT ![q].pc = "dump"]
  /\ UNCHANGED <<now, seek_vars, sim_vars>>

\* save_json_to_file: json.dump into the open file, close, return the path
save_json_dump(q) ==
  /\ inflight[q].pc = "dump"
  /\ seek_results' =
       (inflight[q].filepath :> Append(seek_results[inflight[q].filepath], audit_payload(q)))
         @@ seek_results
  /\ inflight' = [inflight EXCEPT ![q].pc = "saved"]
  /\ UNCHANGED <<now, seek_vars, sim_vars>>

AuditInit ==
  /\ body = [workerId |-> NoneText, transcript |-> NoneText]
  /\ pc = "idle"
  /\ external_data = NoneV
  /\ saved_path = ""
  /\ gemini_resp = NoneV
  /\ response = NoneV
  /\ calls = NoCalls
  /\ EmptyTables
  /\ NoAudit

AuditNext ==
  \/ clock_tick
  \/ \E q \in SeekThreads, w \in AuditWorkerIds : seek_build_payload(q, w)
  \/ \E q \in SeekThreads : save_json_filename(q)
  \/ \E q \in SeekThreads : save_json_open(q)
  \/ \E q \in SeekThreads : save_json_dump(q)

AuditSpec == AuditInit /\ [][AuditNext]_vars

(***************************************************************************)
(* C14: any two concurrent /seek requests write their audit records to     *)
(* distinct file names, so that neither audit file is overwritten by the   *)
(* other, also when both requests are for the same worker identifier and   *)
(* arrive within the same timestamp unit.                                  *)
(***************************************************************************)
Named(q) == "filepath" \in DOMAIN inflight[q]

C14_DistinctAuditFiles ==
  \A q1, q2 \in SeekThreads :
    (q1 # q2 /\ Named(q1) /\ Named(q2))
      => /\ inflight[q1].filepath # inflight[q2].filepath
         /\ inflight[q1].pc = "saved"
              => seek_results[inflight[q1].filepath] = <<audit_payload(q1)>>

(***************************************************************************)
(* C15: for every transcript and record the mapping returned by            *)
(* get_relevant_db_fields holds a "worker" sub-record: the record's nested *)
(* worker object when present, otherwise one synthesized from the record's *)
(* top-level fields.                                                       *)
(***************************************************************************)
TopLevelWorkerFields == WorkerTopLevelKeys \cap DOMAIN external_data.d

SynthesizedWorker == DictV([f \in TopLevelWorkerFields |-> external_data.d[f]])

\* C15 as claimed: a "worker" entry for every record
C15_WorkerAlwaysIncluded ==
  Succeeded =>
    /\ "worker" \in DOMAIN response.relevant_db
    /\ response.relevant_db["worker"] =
         IF "worker" \in DOMAIN external_data.d THEN external_data.d["worker"]
         ELSE SynthesizedWorker

\* C15 as amended: for every transcript, the mapping holds the record's
\* nested worker object when the record has one; otherwise, when the record
\* has at least one of the top-level fields name, phone, email, joined_at,
\* current_status, a sub-record synthesized from those it has; a record with
\* neither gets no "worker" entry
C15_WorkerIncludedIfPresent ==
  Succeeded =>
    IF "worker" \in DOMAIN external_data.d
    THEN /\ "worker" \in DOMAIN response.relevant_db
         /\ response.relevant_db["worker"] = external_data.d["worker"]
    ELSE IF TopLevelWorkerFields # {}
    THEN /\ "worker" \in DOMAIN response.relevant_db
         /\ response.relevant_db["worker"] = SynthesizedWorker
    ELSE "worker" \notin DOMAIN response.relevant_db

C15_Witness ==
  /\ Succeeded
  /\ "worker" \notin DOMAIN external_data.d
  /\ TopLevelWorkerFields = {"name", "current_status"}
  /\ response.relevant_db["worker"] =
       DictV([name |-> StrV("Asha"), current_status |-> StrV("active")])

C15_WitnessNested ==
  /\ Succeeded
  /\ "worker" \in DOMAIN external_data.d
  /\ response.relevant_db["worker"] = DictV(WorkerRow)

(***************************************************************************)
(* C16: adding a worker whose worker_id exists, or an order whose order_id *)
(* exists, is answered 409 and leaves every table as it was; worker_ids    *)
(* and order_ids stay unique after every operation.                        *)
(***************************************************************************)
\* at most one row of the table has v in column col
AtMostOneRow(table, col, v) == rowcount(table, col, v) <= 1

C16_DuplicateInsertIsConflict ==
  [][/\ \A p \in WorkerPayloads :
          (/\ last'.op = "add_worker"
           /\ "worker_id" \in DOMAIN p
           /\ rows_where(workers, "worker_id", p.worker_id) # {}
           /\ api_add_worker(p))
            => last' = [op |-> "add_worker", status |-> 409] /\ UNCHANGED tables
     /\ \A p \in OrderPayloads :
          (/\ last'.op = "add_order"
           /\ {"order_id", "worker_id"} \subseteq DOMAIN p
           /\ rows_where(orders, "order_id", p.order_id) # {}
           /\ api_add_order(p))
            => last' = [op |-> "add_order", status |-> 409] /\ UNCHANGED tables
     /\ workers' # workers => \A w \in SimWorkerIds : AtMostOneRow(workers', "worker_id", w)
     /\ orders' # orders => \A o \in OrderIds : AtMostOneRow(orders', "order_id", o)]_vars

C16_Witness ==
  /\ last = [op |-> "add_worker", status |-> 409]
  /\ rowcount(workers, "worker_id", "W1") = 1
  /\ rowcount(orders, "order_id", 1) = 1

C16_WitnessOrder ==
  /\ last = [op |-> "add_order", status |-> 409]
  /\ rowcount(orders, "order_id", 1) = 1

(***************************************************************************)
(* C17: every worker_id has at most one termination_status row and at most *)
(* one review_counts row, and after add_or_update_termination_status or    *)
(* add_or_update_review_counts the worker's row holds the values of that   *)
(* call: a field the call omits has its default, earlier values are gone.  *)
(***************************************************************************)
\* the value a call's payload gives a column
sent_or(payload, f, default) == IF f \in DOMAIN payload THEN payload[f] ELSE default

C17_UpsertKeepsLatestOnly ==
  [][/\ \A p \in StatusPayloads :
          (/\ last'.op = "add_or_update_termination_status"
           /\ "worker_id" \in DOMAIN p
           /\ api_add_update_termination_status(p))
            => /\ rows_where(termination_status', "worker_id", p.worker_id) =
                    {[worker_id |-> p.worker_id,
                      is_terminated |-> sent_or(p, "is_terminated", 0),
                      termination_reason_text |-> sent_or(p, "termination_reason_text", Null)]}
               /\ rowcount(termination_status', "worker_id", p.worker_id) = 1
     /\ \A p \in ReviewPayloads :
          (/\ last'.op = "add_or_update_review_counts"
           /\ "worker_id" \in DOMAIN p
           /\ api_add_update_review_counts(p))
            => /\ rows_where(review_counts', "worker_id", p.worker_id) =
                    {[worker_id |-> p.worker_id,
                      total_reviews |-> sent_or(p, "total_reviews", 0)]}
               /\ rowcount(review_counts', "worker_id", p.worker_id) = 1
     /\ termination_status' # termination_status =>
          \A w \in SimWorkerIds : AtMostOneRow(termination_status', "worker_id", w)
     /\ review_counts' # review_counts =>
          \A w \in SimWorkerIds : AtMostOneRow(review_counts', "worker_id", w)]_vars

C17_Witness ==
  /\ last = [op |-> "add_or_update_termination_status", status |-> 200]
  /\ rows_where(termination_status, "worker_id", "W1") =
       {[worker_id |-> "W1", is_terminated |-> 0, termination_reason_text |-> Null]}
  /\ rows_where(review_counts, "worker_id", "W1") =
       {[worker_id |-> "W1", total_reviews |-> 5]}

(***************************************************************************)
(* C18: check_discrepancy returns true when the transcript holds a "not    *)
(* paid" phrase and every order of the record that carries a               *)
(* payment-compliance flag has that flag true; when some order that        *)
(* carries the flag has it not true, this rule does not fire.              *)
(***************************************************************************)
SaysNotPaid == any_in(lower(or_empty(body.transcript)), NotPaidKeywords)

\* the orders of the fetched record, none when "orders" is no list
RecordOrders ==
  LET o == get(external_data.d, "orders")
  IN  IF isinstance(o, "list") THEN o.l ELSE <<>>

FlaggedOrders == {k \in 1..Len(RecordOrders) : "payment_compliant" \in DOMAIN RecordOrders[k].d}

AllFlaggedCompliant ==
  \A k \in FlaggedOrders : RecordOrders[k].d["payment_compliant"] \in TrueFlags

\* what check_discrepancy returns for the same record without its orders:
\* the verdict of the other rules
VerdictWithoutOrders ==
  check_discrepancy(body.transcript,
                    [k \in DOMAIN external_data.d \ {"orders"} |-> external_data.d[k]])

\* C18 as claimed
C18_NotPaidRuleAsClaimed ==
  (JustChecked /\ SaysNotPaid) =>
    IF AllFlaggedCompliant THEN ShortCircuited
    ELSE ShortCircuited = VerdictWithoutOrders

\* C18 as amended: check_discrepancy returns true when the transcript holds
\* a "not paid" phrase, at least one order of the record's order list
\* carries a payment-compliance flag, and every order that carries the flag
\* has it true (1, True or "1"); when no order carries the flag, or some
\* order that carries it has it not true, this rule does not fire
C18_NotPaidRuleNeedsAFlag ==
  (JustChecked /\ SaysNotPaid) =>
    IF FlaggedOrders # {} /\ AllFlaggedCompliant THEN ShortCircuited
    ELSE ShortCircuited = VerdictWithoutOrders

C18_Witness ==
  /\ ShortCircuited
  /\ SaysNotPaid
  /\ Len(RecordOrders) = 2
  /\ FlaggedOrders = {1}
  /\ AllFlaggedCompliant
  /\ ~VerdictWithoutOrders

C18_WitnessNotCompliant ==
  /\ pc = "classify"
  /\ SaysNotPaid
  /\ FlaggedOrders = {1, 2}
  /\ ~AllFlaggedCompliant

(***************************************************************************)
(* C19: check_discrepancy returns true when the transcript holds one of    *)
(* the phrases "no notice", "sudden", "immediately", "without notice" and  *)
(* the record's termination status has a non-empty termination reason      *)
(* text, whatever the termination flag and the other rules say.            *)
(***************************************************************************)
SaysNoNotice == any_in(lower(or_empty(body.transcript)), NoNoticeKeywords)

\* the termination reason text a value of the record holds, "" when none
ReasonTextOf(v) ==
  IF isinstance(v, "dict") /\ "termination_reason_text" \in DOMAIN v.d
       /\ isinstance(v.d["termination_reason_text"], "str")
  THEN v.d["termination_reason_text"].s
  ELSE ""

\* the termination status is under termination_status or, when that key is
\* absent or empty, under terminationStatus
RecordReasonText ==
  LET status == get(external_data.d, "termination_status")
  IN  IF truthy(status) THEN ReasonTextOf(status)
      ELSE ReasonTextOf(get(external_data.d, "terminationStatus"))

C19_NoNoticeVsReasonText ==
  (JustChecked /\ SaysNoNotice /\ RecordReasonText # "") => ShortCircuited

\* the flag says terminated, so that the termination rule is silent
C19_Witness ==
  /\ ShortCircuited
  /\ body.transcript = "Blocked without notice "
  /\ RecordReasonText = "policy breach"
  /\ get(external_data.d, "termination_status") =
       DictV([is_terminated |-> IntV(1), termination_reason_text |-> StrV("policy breach")])

(***************************************************************************)
(* C20: when no discrepancy is found and the classifier returns text that  *)
(* names both labels, such as "Valid complaint or Invalid complaint", the  *)
(* final decision is the one of the local fallback heuristic and is not    *)
(* taken from the classifier text.                                         *)
(***************************************************************************)
\* the word k stands at position i of the text
OccursAt(text, k, i) == i >= 1 /\ i + Len(k) - 1 <= Len(text) /\ SubSeq(text, i, i + Len(k) - 1) = k

\* the text holds "invalid" and a "valid" that is not the tail of an "invalid"
NamesBothLabels(text) ==
  LET low == lower(text)
  IN  /\ \E i \in 1..Len(low) : OccursAt(low, "invalid", i)
      /\ \E j \in 1..Len(low) : OccursAt(low, "valid", j) /\ ~OccursAt(low, "invalid", j - 2)

AnsweredBothLabels ==
  Classified /\ gemini_resp.ok /\ NamesBothLabels(gemini_resp.decision)

\* C20 as claimed
C20_AmbiguousTextFallsBack ==
  AnsweredBothLabels =>
    response.final_decision =
      fallback_local_decision(or_empty(body.transcript), external_data.d)

\* C20 as amended: when no discrepancy is found and the classifier returns
\* text that names both labels, the final decision is taken from the
\* classifier text and not from the fallback heuristic: "Valid complaint"
\* when the trimmed text begins with "valid" in any letter case (as "Valid
\* complaint or Invalid complaint" does), "Invalid complaint" otherwise; the
\* fallback heuristic decides only for text that contains neither word
C20_AmbiguousTextReadByPrefix ==
  AnsweredBothLabels =>
    response.final_decision =
      IF startswith(lower(strip(gemini_resp.decision)), "valid")
      THEN ValidComplaint ELSE InvalidComplaint

C20_Witness ==
  /\ AnsweredBothLabels
  /\ gemini_resp.decision = "Valid complaint or Invalid complaint"
  /\ response.final_decision = ValidComplaint
  /\ fallback_local_decision(or_empty(body.transcript), external_data.d) = InvalidComplaint

C20_WitnessInvalid ==
  /\ AnsweredBothLabels
  /\ gemini_resp.decision = "Either valid or invalid"
  /\ response.final_decision = InvalidComplaint
  /\ fallback_local_decision(or_empty(body.transcript), external_data.d) = ValidComplaint

(***************************************************************************)
(* C21: after any sequence of simulator operations every row of orders,    *)
(* termination_status, termination_logs and review_counts carries the      *)
(* worker_id of a worker that exists, and an insert or upsert that names a *)
(* worker that does not exist is rejected and changes nothing.             *)
(***************************************************************************)
WorkerExists(w) == rows_where(workers, "worker_id", w) # {}

\* every row of the four dependent tables belongs to a worker row
NoOrphanRows ==
  /\ \A r \in DOMAIN orders : WorkerExists(r.worker_id)
  /\ \A r \in DOMAIN termination_status : WorkerExists(r.worker_id)
  /\ \A r \in DOMAIN termination_logs : WorkerExists(r.worker_id)
  /\ \A r \in DOMAIN review_counts : WorkerExists(r.worker_id)

InsertOps ==
  {"add_order", "add_or_update_termination_status", "add_termination_log",
   "add_or_update_review_counts"}

\* this step is the call of an insert or upsert with the body p, complete
\* but for the worker it names
NamesMissingWorker(p) ==
  /\ "worker_id" \in DOMAIN p
  /\ ~WorkerExists(p.worker_id)

MissingWorkerRejected ==
  /\ \A p \in OrderPayloads :
       (/\ last'.op = "add_order"
        /\ NamesMissingWorker(p) /\ "order_id" \in DOMAIN p
        /\ api_add_order(p))
         => last'.status \notin {200, 201} /\ UNCHANGED tables
  /\ \A p \in StatusPayloads :
       (/\ last'.op = "add_or_update_termination_status"
        /\ NamesMissingWorker(p)
        /\ api_add_update_termination_status(p))
         => last'.status \notin {200, 201} /\ UNCHANGED tables
  /\ \A p \in LogPayloads :
       (/\ last'.op = "add_termination_log"
        /\ NamesMissingWorker(p)
        /\ api_add_termination_log(p))
         => last'.status \notin {200, 201} /\ UNCHANGED tables
  /\ \A p \in ReviewPayloads :
       (/\ last'.op = "add_or_update_review_counts"
        /\ NamesMissingWorker(p)
        /\ api_add_update_review_counts(p))
         => last'.status \notin {200, 201} /\ UNCHANGED tables

\* C21 as claimed: no dependent row is ever without its worker, and every
\* insert or upsert that names a missing worker is rejected with the tables
\* left as they were
C21_EveryRowHasItsWorker ==
  /\ []NoOrphanRows
  /\ [][MissingWorkerRejected]_vars

\* an order, a status row, a log and a review row of W1, and no worker W1
OrphansOfEveryKind ==
  /\ ~WorkerExists("W1")
  /\ rows_where(orders, "worker_id", "W1") # {}
  /\ rows_where(termination_status, "worker_id", "W1") # {}
  /\ rows_where(termination_logs, "worker_id", "W1") # {}
  /\ rows_where(review_counts, "worker_id", "W1") # {}

(***************************************************************************)
(* C22: every simulator delete that reports not-found (remove_worker,      *)
(* remove_order, remove_termination_status, remove_termination_log,        *)
(* remove_review_counts returning false) leaves all five tables exactly as *)
(* they were before the call.                                              *)
(***************************************************************************)
DeleteOps ==
  {"remove_worker", "remove_order", "remove_termination_status",
   "remove_termination_log", "remove_review_counts"}

\* this step is a delete that answered 404
ReportedNotFound(ops) == last'.op \in ops /\ last'.status = 404

\* C22 as claimed: a delete of any of the five kinds that reports not-found
\* changes no table
C22_NotFoundDeleteChangesNothing ==
  [][ReportedNotFound(DeleteOps) => UNCHANGED tables]_vars

\* the four deletes of a single table do keep every table when they report
\* not-found, and remove_worker then keeps the workers table
NotFoundDeleteOfOneTableChangesNothing ==
  [][/\ ReportedNotFound(DeleteOps \ {"remove_worker"}) => UNCHANGED tables
     /\ ReportedNotFound({"remove_worker"}) => UNCHANGED workers]_vars

====
